---------------------------- MODULE Spec2Model ----------------------------
(***************************************************************************)
(* stressy: repeatedly run a shell command until failure.                  *)
(*                                                                         *)
(* The model follows the controlling thread of src/stressy.py through      *)
(* main(), stress_test(), run(), kill() and handle_sleep().  The thread's  *)
(* position is pc; it only rests at the places where the code blocks       *)
(* (proc.wait, time.sleep) or where a later step of the code is a          *)
(* separate decision (loop test, result of run(), return of stress_test).  *)
(* Child processes are separate OS processes: each may exit with any code  *)
(* at any time while the supervisor is waiting.  Time is counted in ticks  *)
(* of the perf_counter between two readings of timer().  A                 *)
(* KeyboardInterrupt may be delivered while the thread is blocked in a     *)
(* wait or a sleep, and in the top-level loop code between two rounds.     *)
(***************************************************************************)
EXTENDS Integers, Sequences, FiniteSets, TLC

\* ------------------------------------------------------------------ bounds
MaxRuns      == 2   \* largest -n value; also the cap on rounds when -n is absent
MaxProcs     == 2   \* largest -p value
MaxTimeout   == 2   \* largest -t value, in ticks
MaxSleep     == 3   \* largest -s value, in units of 1/Resolution second
Resolution   == 2   \* sleep units per second (the -s option is a float)
MaxExitCode  == 1   \* child exit codes are 0..MaxExitCode
MaxKillTicks == 1   \* ticks the wait inside kill() may take
MaxLines     == 3   \* most lines of RESULTS_FILE found by -r or --clear-results
MaxOthers    == 1   \* most entries appended by other invocations during a clear
MaxCount     == 2   \* largest count of one unit in a duration given to the
                    \* duration functions

\* Python's None, for an option that was not given and a return code not yet set
None == -1

Max(a, b) == IF a >= b THEN a ELSE b

\* ------------------------------------------------------------------- state
VARIABLES
    os_name,            \* os.name: "nt" or "posix"
    args,               \* the parsed command line
    pc,                 \* position of the controlling thread
    runs,               \* stress_test: runs
    result,             \* stress_test: result (TestResult)
    procs,              \* run: the child processes (the OS's view)
    i,                  \* run: index of the process being waited for
    success,            \* run: success
    remaining_timeout,  \* run: remaining_timeout
    clock,              \* timer() - start_time of the current loop iteration of run
    outcome,            \* run: what the supervisor observed of each process
    seconds,            \* handle_sleep: seconds
    exc,                \* the exception that left the program uncaught, if any
    history,            \* the lines of RESULTS_FILE appended by this invocation
    exit_code,          \* the value main() returned to sys.exit
    interrupt,          \* where a KeyboardInterrupt was delivered since the last
                        \* round started, with the counters at that moment
    spent,              \* sum of the elapsed values measured in the current round
    wait_used,          \* ticks spent inside proc.wait(remaining_timeout) this round
    rounds_true,        \* number of times run() returned True
    rounds_false,       \* number of times run() returned False
    results_file,       \* RESULTS_FILE: whether it exists, and its lines
    hist,               \* the history operations: their inputs, outputs and position
    print_over_length,  \* the global print_over_length
    dirty_print,        \* whether a line was printed while print_over_length > 0
    logs,               \* file mode: the log files and the handles in stdout
    log_rounds,         \* file mode: the last round each process passed, failed
    duration_io         \* the duration functions: an input and what they returned

vars == <<os_name, args, pc, runs, result, procs, i, success, remaining_timeout,
          clock, outcome, seconds, exc, history, exit_code, interrupt, spent,
          wait_used, rounds_true, rounds_false, results_file, hist,
          print_over_length, dirty_print, logs, log_rounds, duration_io>>

roundVars == <<procs, i, success, remaining_timeout, clock, outcome, spent,
               wait_used>>

storeVars == <<results_file, hist>>

termVars == <<print_over_length, dirty_print>>

logVars == <<logs, log_rounds>>

ProcIds == 0 .. (args.processes - 1)

NotStarted == [state |-> "none", returncode |-> None]
Running    == [state |-> "running", returncode |-> None]
Pending    == [kind |-> "pending", returncode |-> None]

NoInterrupt == [at |-> "none", runs |-> 0, passed_runs |-> 0, failed_runs |-> 0]

\* the separator of the fields of a line of RESULTS_FILE
Tab == "\t"

\* command strings, as sequences of characters; the empty one is "no command"
NoCommand == << >>

Commands == {<<"a">>, <<"a", "b">>, <<"b">>}

\* class OutputMode
OutputModes == {"all", "fail", "file", "none"}

\* command lines that run the repetition loop with the default output mode;
\* the timeouts and the sleeps are none, zero, the shortest and the longest
LoopArgs ==
    [ runs          : {None} \cup (1 .. MaxRuns),
      processes     : 1 .. MaxProcs,
      timeout       : {None, 0, 1, MaxTimeout},
      sleep         : {None, 0, 1, MaxSleep},
      cont          : BOOLEAN,
      output        : {"all"},
      command       : {<<"a">>},
      results       : {FALSE},
      clear_results : {FALSE} ]

\* command lines that run the repetition loop with another output mode
OutputArgs ==
    [ runs          : {MaxRuns},
      processes     : {MaxProcs},
      timeout       : {None, 0},
      sleep         : {None, MaxSleep},
      cont          : BOOLEAN,
      output        : OutputModes \ {"all"},
      command       : {<<"a">>},
      results       : {FALSE},
      clear_results : {FALSE} ]

\* command lines with -r or --clear-results, or without a command
QueryArgs ==
    [ runs          : {None},
      processes     : {1},
      timeout       : {None},
      sleep         : {None},
      cont          : {FALSE},
      output        : {"all"},
      command       : Commands \cup {NoCommand},
      results       : BOOLEAN,
      clear_results : BOOLEAN ]

\* the command lines considered
Args == LoopArgs \cup OutputArgs \cup QueryArgs

\* RESULTS_FILE does not exist
AbsentFile == [exists |-> FALSE, lines |-> << >>]

\* append_result: one line of RESULTS_FILE; the fields after the command are
\* kept as one token
Line(command, fields) == command \o <<Tab, fields>>

\* the lines earlier invocations may have appended
Lines == {Line(c, f) : c \in Commands, f \in {"PASSED", "FAILED"}}

\* RESULTS_FILE as an invocation with -r or --clear-results may find it:
\* absent, or with up to MaxLines lines
Stores ==
    {AbsentFile} \cup
    {[exists |-> TRUE, lines |-> l] :
        l \in UNION {[1 .. n -> Lines] : n \in 0 .. MaxLines}}

\* no history operation has been done: the operation and its command, the file
\* it found, what print_results listed, what clear_results counted, kept and
\* reported, and what other invocations appended and read meanwhile
NoHist ==
    [op |-> "none", command |-> NoCommand, before |-> AbsentFile,
     listed |-> << >>, removed |-> 0, total |-> 0, reported |-> FALSE,
     remaining |-> << >>, appended |-> << >>, reads |-> {}]

\* file mode: no log file and no open handle
NoLogs(ids) ==
    [temp |-> [j \in ids |-> 0], good |-> [j \in ids |-> 0],
     bad |-> [j \in ids |-> 0], open |-> [j \in ids |-> FALSE]]

\* file mode: good and bad logs left by an earlier invocation
StaleLogs(ids) ==
    [temp |-> [j \in ids |-> 0], good |-> [j \in ids |-> None],
     bad |-> [j \in ids |-> None], open |-> [j \in ids |-> FALSE]]

NoLogRounds(ids) == [good |-> [j \in ids |-> 0], bad |-> [j \in ids |-> 0]]

\* class TestResult
TestResult == [status |-> "None", passed_runs |-> 0, failed_runs |-> 0]

\* the duration functions have not been called
NoDuration ==
    [seconds |-> None, string |-> << >>, parsed |-> FALSE, failed |-> FALSE,
     formatted |-> {}, stressy |-> << >>, utils |-> << >>]

\* the program when main is entered
ProgramInit ==
    /\ os_name \in {"nt", "posix"}
    /\ args \in Args
    /\ pc = "main"
    /\ runs = 0
    /\ result = TestResult
    /\ procs = [j \in ProcIds |-> NotStarted]
    /\ i = 0
    /\ success = TRUE
    /\ remaining_timeout = None
    /\ clock = 0
    /\ outcome = [j \in ProcIds |-> Pending]
    /\ seconds = 0
    /\ exc = "None"
    /\ history = << >>
    /\ exit_code = "None"
    /\ interrupt = NoInterrupt
    /\ spent = 0
    /\ wait_used = 0
    /\ rounds_true = 0
    /\ rounds_false = 0
    /\ results_file \in (IF args.results \/ args.clear_results
                         THEN Stores ELSE {AbsentFile})
    /\ hist = NoHist
    /\ print_over_length = 0
    /\ dirty_print = FALSE
    /\ logs \in (IF args.output = "file"
                 THEN {NoLogs(ProcIds), StaleLogs(ProcIds)} ELSE {NoLogs(ProcIds)})
    /\ log_rounds = NoLogRounds(ProcIds)

Init ==
    /\ ProgramInit
    /\ duration_io = NoDuration

\* ----------------------------------------------------------------- helpers
\* a loop that runs one round too many
LoopCondition_OffByOne(limit, n) == limit = None \/ n <= limit

\* stress_test: the while condition
LoopCondition(limit, n) == limit = None \/ n < limit

\* run: proc_success = returncode == 0
ProcSuccess(returncode) == returncode = 0

\* a supervisor that reports the success of the last process only
RoundSuccess_LastWins(s, proc_success) == proc_success

\* run: success = success and proc_success
RoundSuccess(s, proc_success) == s /\ proc_success

\* a supervisor that gives every process the whole timeout
RemainingAfter_PerProcess(rt, elapsed) == rt

\* run: remaining_timeout = max(remaining_timeout - elapsed, 0), when a timeout is set
RemainingAfter(rt, elapsed) == IF rt # None THEN Max(rt - elapsed, 0) ELSE rt

\* kill: signal.CTRL_C_EVENT is an attribute of the signal module on Windows only;
\* elsewhere the attribute lookup raises AttributeError before os.kill is called
KillSignalDefined(os) == os = "nt"

\* a loop that never breaks on a failure
StopOnFailure_Never(cont) == FALSE

\* stress_test: "if not args.cont: break"
StopOnFailure(cont) == ~cont

\* a loop that counts a failed round as passed as well
Counted_Twice(r, ok) ==
    IF ok THEN [r EXCEPT !.passed_runs = @ + 1]
          ELSE [r EXCEPT !.passed_runs = @ + 1, !.failed_runs = @ + 1]

\* stress_test: "if run(args): result.passed_runs += 1 else: result.failed_runs += 1"
Counted(r, ok) ==
    IF ok THEN [r EXCEPT !.passed_runs = @ + 1]
          ELSE [r EXCEPT !.failed_runs = @ + 1]

\* a final determination that ignores the failure count
FinalStatus_IgnoresFailures(status, failed_runs) ==
    IF status # "CANCELLED" THEN "PASSED" ELSE status

\* a final determination that replaces the status of a cancelled run
FinalStatus_OverwritesCancelled(status, failed_runs) ==
    IF failed_runs = 0 THEN "PASSED" ELSE "FAILED"

\* stress_test: "determine result"
FinalStatus(status, failed_runs) ==
    IF status # "CANCELLED"
    THEN IF failed_runs = 0 THEN "PASSED" ELSE "FAILED"
    ELSE status

\* handle_sleep: "if not seconds: return"
NotSeconds(s) == s = None \/ s = 0

\* a sleep that counts below zero
SecondsAfterTick_NoClamp(s) == s - Resolution

\* handle_sleep: seconds = max(seconds - 1, 0)
SecondsAfterTick(s) == Max(s - Resolution, 0)

\* a loop that breaks on an interrupt without recording it
Cancelled_NoStatus(r) == r

\* stress_test: "except KeyboardInterrupt: result.status = CANCELLED; break"
Cancelled(r) == [r EXCEPT !.status = "CANCELLED"]

\* the counters at the moment a KeyboardInterrupt is delivered
InterruptAt(where) ==
    [at |-> where, runs |-> runs, passed_runs |-> result.passed_runs,
     failed_runs |-> result.failed_runs]

\* a supervisor that starts the first process only before it waits
StartedProcs_FirstOnly == [j \in ProcIds |-> IF j = 0 THEN Running ELSE NotStarted]

\* run: procs = [ subprocess.Popen(...) for i in range(args.processes) ]
StartedProcs == [j \in ProcIds |-> Running]

\* run() has returned or was left by an exception: its locals are gone
RunLeft ==
    /\ procs' = [j \in ProcIds |-> NotStarted]
    /\ outcome' = [j \in ProcIds |-> Pending]
    /\ i' = 0
    /\ success' = TRUE
    /\ remaining_timeout' = None
    /\ clock' = 0
    /\ spent' = 0
    /\ wait_used' = 0

\* --------------------------------------------------------------- terminal
\* the progress line of a round and the line shown while sleeping, their
\* variable parts left out
ProgressLine == "[ run ]"

SleepLine == "[ sleeping ]"

\* the status line as the module keeps it, and whether an ordinary line was
\* printed while a status line was in progress
Term == [length |-> print_over_length, dirty |-> dirty_print]

\* print_over: msg = '  ' + msg; print_over_length = len(msg)
print_over(t, msg) == [t EXCEPT !.length = Len("  " \o msg)]

\* print_complete: ends the status line; print_over_length = 0
print_complete(t) == [t EXCEPT !.length = 0]

\* the builtin print of an ordinary line; it does not look at print_over_length
print_line(t) == [t EXCEPT !.dirty = @ \/ t.length > 0]

\* run: print_proc(i, msg, verbose)
print_proc(t, output, verbose) ==
    IF output = "file" THEN t
    ELSE IF output # "none" /\ ~verbose THEN print_line(print_complete(t))
    ELSE t

\* run: "output process output on failure", then "output process termination info"
ProcDonePrints(t, output, proc_success) ==
    print_proc(IF output = "fail" /\ ~proc_success
               THEN print_line(print_complete(t)) ELSE t,
               output, proc_success)

\* stress_test: "output info"
ProgressPrints(t, output) ==
    IF output = "all" THEN print_line(print_line(print_line(t)))
    ELSE print_over(t, ProgressLine)

\* stress_test: "finish possible print_over"
FinishPrints(t, output, status) ==
    IF output = "all" \/ (output = "fail" /\ status = "FAILED")
    THEN print_line(t)
    ELSE print_complete(t)

\* the terminal after the action
SetTerm(t) ==
    /\ print_over_length' = t.length
    /\ dirty_print' = t.dirty

\* -------------------------------------------------------------- log files
\* run: stdout = [ open(LogName.TEMP % i, 'w') for i in range(args.processes) ],
\* the first k files; a file holds the number of the round that wrote it
OpenLogs(l, k, round) ==
    [l EXCEPT !.temp = [j \in DOMAIN @ |-> IF j < k THEN round ELSE @[j]],
              !.open = [j \in DOMAIN @ |-> j < k]]

\* a supervisor that keeps an older log of the same name
MoveLog_KeepsOld(l, j, proc_success) ==
    [l EXCEPT !.open[j] = FALSE,
              !.temp[j] = 0,
              !.good[j] = IF proc_success /\ @ = 0 THEN l.temp[j] ELSE @,
              !.bad[j]  = IF ~proc_success /\ @ = 0 THEN l.temp[j] ELSE @]

\* run: stdout[i].close(); shutil.move(TEMP % i, (PASSED if proc_success else FAILED) % i)
MoveLog(l, j, proc_success) ==
    [l EXCEPT !.open[j] = FALSE,
              !.temp[j] = 0,
              !.good[j] = IF proc_success THEN l.temp[j] ELSE @,
              !.bad[j]  = IF ~proc_success THEN l.temp[j] ELSE @]

\* run: the finally clause closes every handle and removes the temporary logs
CleanupLogs(l) ==
    [l EXCEPT !.open = [j \in DOMAIN @ |-> FALSE],
              !.temp = [j \in DOMAIN @ |-> 0]]

\* ----------------------------------------------------------- history store
\* str.startswith
StartsWith(line, prefix) ==
    /\ Len(prefix) <= Len(line)
    /\ SubSeq(line, 1, Len(prefix)) = prefix

\* str.split('\t'): the fields of a line
RECURSIVE Split(_)
Split(line) ==
    IF \E k \in 1 .. Len(line) : line[k] = Tab
    THEN LET k == CHOOSE n \in 1 .. Len(line) :
                      line[n] = Tab /\ \A m \in 1 .. (n - 1) : line[m] # Tab
         IN  <<SubSeq(line, 1, k - 1)>> \o Split(SubSeq(line, k + 1, Len(line)))
    ELSE <<line>>

\* the lines of RESULTS_FILE as open(RESULTS_FILE, 'r') yields them;
\* FileNotFoundError is caught and leaves nothing read
ReadLines(file) == IF file.exists THEN file.lines ELSE << >>

\* a listing that opens a new group for every line
AddToGroup_Ungrouped(groups, row) ==
    Append(groups, [command |-> Head(row), entries |-> <<Tail(row)>>])

\* print_results: groups[row[0]].append(row[1:]), the groups in insertion order
AddToGroup(groups, row) ==
    IF \E g \in 1 .. Len(groups) : groups[g].command = Head(row)
    THEN [g \in 1 .. Len(groups) |->
             IF groups[g].command = Head(row)
             THEN [groups[g] EXCEPT !.entries = Append(@, Tail(row))]
             ELSE groups[g]]
    ELSE Append(groups, [command |-> Head(row), entries |-> <<Tail(row)>>])

\* print_results: the loop over the lines of the file
RECURSIVE Groups(_, _, _)
Groups(lines, command, groups) ==
    IF lines = << >> THEN groups
    ELSE Groups(Tail(lines), command,
                IF StartsWith(Head(lines), command)
                THEN AddToGroup(groups, Split(Head(lines)))
                ELSE groups)

\* print_results: what is listed
PrintResults(file, command) == Groups(ReadLines(file), command, << >>)

\* clear_results: the loop over the lines of the file, collecting remaining
RECURSIVE Remaining(_, _)
Remaining(lines, command) ==
    IF lines = << >> THEN << >>
    ELSE (IF ~StartsWith(Head(lines), command) THEN <<Head(lines)>> ELSE << >>)
         \o Remaining(Tail(lines), command)

\* a clear that keeps the matching lines and drops the others
ClearResults_KeepsMatching(file, command) ==
    LET lines == ReadLines(file)
        kept  == SelectSeq(lines, LAMBDA l : StartsWith(l, command))
    IN  [file     |-> [exists |-> TRUE, lines |-> kept],
         removed  |-> Len(lines) - Len(kept),
         total    |-> Len(lines),
         reported |-> TRUE]

\* clear_results: the file afterwards, the counts, and whether "removed %d of
\* %d results" is printed (otherwise "no results to remove for this command")
ClearResults(file, command) ==
    LET lines        == ReadLines(file)
        total_count  == Len(lines)
        remaining    == Remaining(lines, command)
        remove_count == total_count - Len(remaining)
    IN  [file     |-> IF remove_count = 0 THEN file
                      ELSE [exists |-> TRUE, lines |-> remaining],
         removed  |-> remove_count,
         total    |-> total_count,
         reported |-> remove_count # 0]

\* an append that writes the line twice
AppendResult_Twice(file, line) ==
    [exists |-> TRUE, lines |-> Append(Append(ReadLines(file), line), line)]

\* append_result: open(RESULTS_FILE, 'a') and write one line
AppendResult(file, line) == [exists |-> TRUE, lines |-> Append(ReadLines(file), line)]

\* ----------------------------------------------------------------- actions
\* main: -r is given; print_results and return PASSED
MainResults ==
    /\ pc = "main"
    /\ args.results
    /\ hist' = [hist EXCEPT !.op = "list", !.command = args.command,
                            !.before = results_file,
                            !.listed = PrintResults(results_file, args.command)]
    /\ SetTerm(print_line(Term))
    /\ exit_code' = "PASSED"
    /\ pc' = "exited"
    /\ UNCHANGED <<duration_io, os_name, args, results_file, logVars, runs, result,
                   roundVars, seconds, exc, history, interrupt, rounds_true,
                   rounds_false>>

\* main: --clear-results is given without -r; clear_results and return PASSED
MainClearResults ==
    /\ pc = "main"
    /\ ~args.results
    /\ args.clear_results
    /\ LET c == ClearResults(results_file, args.command)
       IN  /\ results_file' = c.file
           /\ hist' = [hist EXCEPT !.op = "clear", !.command = args.command,
                                   !.before = results_file,
                                   !.removed = c.removed, !.total = c.total,
                                   !.reported = c.reported]
    /\ SetTerm(print_line(Term))
    /\ exit_code' = "PASSED"
    /\ pc' = "exited"
    /\ UNCHANGED <<duration_io, os_name, args, logVars, runs, result, roundVars,
                   seconds, exc, history, interrupt, rounds_true, rounds_false>>

\* main: no flag and no command; print the help and return ERROR
MainNoCommand ==
    /\ pc = "main"
    /\ ~args.results
    /\ ~args.clear_results
    /\ args.command = NoCommand
    /\ SetTerm(print_line(Term))
    /\ exit_code' = "ERROR"
    /\ pc' = "exited"
    /\ UNCHANGED <<duration_io, os_name, args, storeVars, logVars, runs, result,
                   roundVars, seconds, exc, history, interrupt, rounds_true,
                   rounds_false>>

\* main calls stress_test; in file mode the old log files are removed first
MainStressTest ==
    /\ pc = "main"
    /\ ~args.results
    /\ ~args.clear_results
    /\ args.command # NoCommand
    /\ logs' = IF args.output = "file" THEN NoLogs(ProcIds) ELSE logs
    /\ pc' = "loop"
    /\ UNCHANGED <<duration_io, os_name, args, storeVars, termVars, log_rounds, runs, result,
                   roundVars, seconds, exc, history, exit_code, interrupt,
                   rounds_true, rounds_false>>

\* an I/O error other than a missing file in print_results, clear_results or
\* append_result: OSError is raised, and the entry point catches Failed only
HistoryIOError ==
    /\ \/ pc = "main" /\ (args.results \/ args.clear_results)
       \/ pc = "returned"
    /\ exc' = "OSError"
    /\ pc' = "aborted"
    /\ UNCHANGED <<duration_io, os_name, args, storeVars, termVars, logVars, runs, result,
                   roundVars, seconds, history, exit_code, interrupt, rounds_true,
                   rounds_false>>

\* stress_test: the loop condition holds; runs += 1 and the progress line
LoopTop ==
    /\ pc = "loop"
    /\ LoopCondition(args.runs, runs)
    /\ args.runs = None => runs < MaxRuns
    /\ runs' = runs + 1
    /\ SetTerm(ProgressPrints(Term, args.output))
    /\ pc' = "run"
    /\ UNCHANGED <<duration_io, os_name, args, storeVars, logVars, result, roundVars, seconds, exc, history,
                   exit_code, interrupt, rounds_true, rounds_false>>

\* stress_test: the loop condition fails, the loop ends
LoopExit ==
    /\ pc = "loop"
    /\ ~LoopCondition(args.runs, runs)
    /\ pc' = "finish"
    /\ UNCHANGED <<duration_io, os_name, args, storeVars, termVars, logVars, runs, result, roundVars, seconds, exc, history,
                   exit_code, interrupt, rounds_true, rounds_false>>

\* run: start all processes, then begin waiting for process 0
Launch ==
    /\ pc = "run"
    /\ procs' = StartedProcs
    /\ outcome' = [j \in ProcIds |-> Pending]
    /\ success' = TRUE
    /\ remaining_timeout' = args.timeout
    /\ i' = 0
    /\ clock' = 0
    /\ spent' = 0
    /\ wait_used' = 0
    /\ interrupt' = NoInterrupt
    /\ logs' = IF args.output = "file"
                THEN OpenLogs(logs, args.processes, runs) ELSE logs
    /\ pc' = "wait"
    /\ UNCHANGED <<duration_io, os_name, args, storeVars, termVars, log_rounds, runs, result, seconds, exc, history, exit_code,
                   rounds_true, rounds_false>>

\* run, file mode: open() of the temporary log of process k fails; the
\* statement is before the try, so the finally clause does not run and the
\* OSError leaves run, stress_test and main
LaunchOpenFails(k) ==
    /\ pc = "run"
    /\ args.output = "file"
    /\ logs' = [OpenLogs(logs, k, runs) EXCEPT !.open = [j \in DOMAIN @ |-> FALSE]]
    /\ exc' = "OSError"
    /\ pc' = "aborted"
    /\ UNCHANGED <<duration_io, os_name, args, storeVars, termVars, log_rounds, runs, result,
                   roundVars, seconds, history, exit_code, interrupt, rounds_true,
                   rounds_false>>

\* a child process terminates by itself with exit code c
ProcExit(j, c) ==
    /\ pc \in {"wait", "kill"}
    /\ procs[j].state = "running"
    /\ procs' = [procs EXCEPT ![j] = [state |-> "exited", returncode |-> c]]
    /\ UNCHANGED <<duration_io, os_name, args, storeVars, termVars, logVars, pc, runs, result, i, success, remaining_timeout,
                   clock, outcome, seconds, exc, history, exit_code, interrupt,
                   spent, wait_used, rounds_true, rounds_false>>

\* time passes while the thread is blocked in proc.wait
Tick ==
    /\ remaining_timeout # None
    /\ \/ pc = "wait" /\ clock < remaining_timeout
       \/ pc = "kill" /\ clock < remaining_timeout + MaxKillTicks
    /\ clock' = clock + 1
    /\ UNCHANGED <<duration_io, os_name, args, storeVars, termVars, logVars, pc, runs, result, procs, i, success,
                   remaining_timeout, outcome, seconds, exc, history, exit_code,
                   interrupt, spent, wait_used, rounds_true, rounds_false>>

\* run: the rest of the loop body once proc_success is known, and the return
\* of run() after the last process
ProcDone(proc_success, kind, returncode, waited) ==
    LET elapsed  == clock
        s        == RoundSuccess(success, proc_success)
        lastProc == i + 1 >= args.processes
    IN  /\ outcome' = [outcome EXCEPT ![i] = [kind |-> kind, returncode |-> returncode]]
        /\ procs' = [procs EXCEPT ![i] = [state |-> "reaped", returncode |-> None]]
        /\ remaining_timeout' = RemainingAfter(remaining_timeout, elapsed)
        /\ spent' = spent + elapsed
        /\ wait_used' = wait_used + waited
        /\ success' = s
        /\ clock' = 0
        /\ i' = IF lastProc THEN i ELSE i + 1
        /\ pc' = IF lastProc THEN "round_done" ELSE "wait"
        /\ SetTerm(ProcDonePrints(Term, args.output, proc_success))
        /\ logs' = IF args.output = "file"
                    THEN IF lastProc THEN CleanupLogs(MoveLog(logs, i, proc_success))
                                     ELSE MoveLog(logs, i, proc_success)
                    ELSE logs
        /\ log_rounds' = IF args.output # "file" THEN log_rounds
                          ELSE IF proc_success
                               THEN [log_rounds EXCEPT !.good[i] = runs]
                               ELSE [log_rounds EXCEPT !.bad[i] = runs]
        /\ rounds_true' = IF lastProc /\ s THEN rounds_true + 1 ELSE rounds_true
        /\ rounds_false' = IF lastProc /\ ~s THEN rounds_false + 1 ELSE rounds_false

\* run: proc.wait(remaining_timeout) returns the exit code
WaitReturn ==
    /\ pc = "wait"
    /\ procs[i].state = "exited"
    /\ ProcDone(ProcSuccess(procs[i].returncode), "exited", procs[i].returncode, clock)
    /\ UNCHANGED <<duration_io, os_name, args, storeVars, runs, result, seconds, exc, history, exit_code,
                   interrupt>>

\* run: proc.wait(remaining_timeout) raises TimeoutExpired; kill(proc) is called
WaitTimeout ==
    /\ pc = "wait"
    /\ remaining_timeout # None
    /\ clock >= remaining_timeout
    /\ procs[i].state = "running"
    /\ outcome' = [outcome EXCEPT ![i] = [kind |-> "expired", returncode |-> None]]
    /\ wait_used' = wait_used + clock
    /\ IF KillSignalDefined(os_name)
       THEN \* os.kill sent; now in kill's proc.wait()
            /\ pc' = "kill"
            /\ exc' = exc
            /\ logs' = logs
       ELSE \* AttributeError leaves kill, run (through its finally), stress_test
            \* and main; the entry point catches Failed only
            /\ pc' = "aborted"
            /\ exc' = "AttributeError"
            /\ logs' = IF args.output = "file" THEN CleanupLogs(logs) ELSE logs
    /\ UNCHANGED <<duration_io, os_name, args, storeVars, termVars, log_rounds, runs, result, procs, i, success, remaining_timeout,
                   clock, seconds, history, exit_code, interrupt, spent,
                   rounds_true, rounds_false>>

\* kill: proc.wait() returns, the process is gone
KillReturn ==
    /\ pc = "kill"
    /\ procs[i].state = "exited"
    /\ ProcDone(FALSE, "killed", procs[i].returncode, 0)
    /\ UNCHANGED <<duration_io, os_name, args, storeVars, runs, result, seconds, exc, history, exit_code,
                   interrupt>>

\* kill: a KeyboardInterrupt arrives in proc.wait(); "except KeyboardInterrupt: pass"
KillInterrupted ==
    /\ pc = "kill"
    /\ interrupt' = InterruptAt("kill")
    /\ ProcDone(FALSE, "killed", procs[i].returncode, 0)
    /\ UNCHANGED <<duration_io, os_name, args, storeVars, runs, result, seconds, exc, history, exit_code>>

\* run: a KeyboardInterrupt arrives in proc.wait(remaining_timeout); it leaves
\* run through the finally clause and is caught in stress_test
InterruptWait ==
    /\ pc = "wait"
    /\ interrupt' = InterruptAt("wait")
    /\ result' = Cancelled(result)
    /\ pc' = "finish"
    /\ logs' = IF args.output = "file" THEN CleanupLogs(logs) ELSE logs
    /\ RunLeft
    /\ UNCHANGED <<duration_io, os_name, args, storeVars, termVars, log_rounds, runs, seconds, exc, history, exit_code,
                   rounds_true, rounds_false>>

\* stress_test: the result of run() is counted; break, or enter handle_sleep
RoundResult ==
    /\ pc = "round_done"
    /\ result' = Counted(result, success)
    /\ IF success
       THEN /\ pc' = IF NotSeconds(args.sleep) THEN "loop" ELSE "sleep"
       ELSE /\ pc' = IF StopOnFailure(args.cont) THEN "finish"
                     ELSE IF NotSeconds(args.sleep) THEN "loop" ELSE "sleep"
    /\ seconds' = IF pc' = "sleep" THEN args.sleep ELSE seconds
    /\ SetTerm(IF pc' = "sleep" THEN print_over(Term, SleepLine) ELSE Term)
    /\ RunLeft
    /\ UNCHANGED <<duration_io, os_name, args, storeVars, logVars, runs, exc, history, exit_code, interrupt,
                   rounds_true, rounds_false>>

\* handle_sleep: time.sleep(1) returns
SleepTick ==
    /\ pc = "sleep"
    /\ seconds' = SecondsAfterTick(seconds)
    /\ pc' = IF seconds' > 0 THEN "sleep" ELSE "loop"
    /\ SetTerm(print_over(Term, IF seconds' > 0 THEN SleepLine ELSE ""))
    /\ UNCHANGED <<duration_io, os_name, args, storeVars, logVars, runs, result, roundVars, exc, history, exit_code,
                   interrupt, rounds_true, rounds_false>>

\* handle_sleep: a KeyboardInterrupt arrives in time.sleep(1); caught in stress_test
InterruptSleep ==
    /\ pc = "sleep"
    /\ interrupt' = InterruptAt("sleep")
    /\ result' = Cancelled(result)
    /\ pc' = "finish"
    /\ UNCHANGED <<duration_io, os_name, args, storeVars, termVars, logVars, runs, roundVars, seconds, exc, history, exit_code,
                   rounds_true, rounds_false>>

\* stress_test: a KeyboardInterrupt arrives in the loop code outside the try
\* statement (loop test, runs += 1, progress line); nothing catches it
InterruptLoop ==
    /\ pc = "loop"
    /\ interrupt' = InterruptAt("loop")
    /\ pc' = "aborted"
    /\ exc' = "KeyboardInterrupt"
    /\ UNCHANGED <<duration_io, os_name, args, storeVars, termVars, logVars, runs, result, roundVars, seconds, history,
                   exit_code, rounds_true, rounds_false>>

\* stress_test: after the loop, determine the result and return it
Finish ==
    /\ pc = "finish"
    /\ result' = [result EXCEPT !.status = FinalStatus(result.status, result.failed_runs)]
    /\ SetTerm(FinishPrints(Term, args.output, result'.status))
    /\ pc' = "returned"
    /\ UNCHANGED <<duration_io, os_name, args, storeVars, logVars, runs, roundVars, seconds, exc, history, exit_code,
                   interrupt, rounds_true, rounds_false>>

\* main: print the summary, append_result, return result.status
MainReport ==
    /\ pc = "returned"
    /\ history' = Append(history, [processes   |-> args.processes,
                                   passed_runs |-> result.passed_runs,
                                   failed_runs |-> result.failed_runs,
                                   status      |-> result.status])
    /\ results_file' = AppendResult(results_file, Line(args.command, result.status))
    /\ SetTerm(print_line(Term))
    /\ exit_code' = result.status
    /\ pc' = "exited"
    /\ UNCHANGED <<duration_io, os_name, args, hist, logVars, runs, result, roundVars, seconds, exc, interrupt,
                   rounds_true, rounds_false>>

Next ==
    \/ MainResults
    \/ MainClearResults
    \/ MainNoCommand
    \/ MainStressTest
    \/ HistoryIOError
    \/ LoopTop
    \/ LoopExit
    \/ Launch
    \/ \E k \in ProcIds : LaunchOpenFails(k)
    \/ \E j \in ProcIds, c \in 0 .. MaxExitCode : ProcExit(j, c)
    \/ Tick
    \/ WaitReturn
    \/ WaitTimeout
    \/ KillReturn
    \/ KillInterrupted
    \/ InterruptWait
    \/ RoundResult
    \/ SleepTick
    \/ InterruptSleep
    \/ InterruptLoop
    \/ Finish
    \/ MainReport

Spec == Init /\ [][Next]_vars

\* the steps of the controlling thread that need nothing but the processor
ThreadStep ==
    \/ MainResults
    \/ MainClearResults
    \/ MainNoCommand
    \/ MainStressTest
    \/ LoopTop
    \/ LoopExit
    \/ Launch
    \/ WaitReturn
    \/ WaitTimeout
    \/ KillReturn
    \/ RoundResult
    \/ Finish
    \/ MainReport

\* the thread is scheduled, time passes in a timed wait and in time.sleep, and
\* every child process terminates by itself; interrupts and I/O errors may or
\* may not happen
Fairness ==
    /\ WF_vars(ThreadStep)
    /\ WF_vars(Tick)
    /\ WF_vars(SleepTick)
    /\ \A j \in 0 .. (MaxProcs - 1) :
          WF_vars(j \in ProcIds /\ \E c \in 0 .. MaxExitCode : ProcExit(j, c))

SpecFair == Spec /\ Fairness

\* the command lines for the inter-round sleep: the default output mode, one
\* process per round, without a timeout or with one that expires at once
InitSleep ==
    /\ Init
    /\ args \in LoopArgs
    /\ args.processes = 1
    /\ args.timeout \in {None, 0}

\* the steps of an invocation that calls stress_test in the default output mode
NextLoop ==
    \/ MainStressTest
    \/ LoopTop
    \/ LoopExit
    \/ Launch
    \/ \E j \in ProcIds, c \in 0 .. MaxExitCode : ProcExit(j, c)
    \/ Tick
    \/ WaitReturn
    \/ WaitTimeout
    \/ KillReturn
    \/ KillInterrupted
    \/ InterruptWait
    \/ RoundResult
    \/ SleepTick
    \/ InterruptSleep
    \/ InterruptLoop
    \/ Finish
    \/ MainReport

SpecSleep == InitSleep /\ [][NextLoop]_vars /\ Fairness

\* ------------------------------------------------------ duration functions
\* utils.UNITS_DURATION: the factor and the aliases of each unit, smallest first
UNITS_DURATION ==
    << [factor |-> 1,        aliases |-> <<"s", "sec", "", "second", "seconds">>],
       [factor |-> 60,       aliases |-> <<"min", "minute", "minutes">>],
       [factor |-> 3600,     aliases |-> <<"h", "hour", "hours">>],
       [factor |-> 86400,    aliases |-> <<"d", "day", "days">>],
       [factor |-> 604800,   aliases |-> <<"w", "week", "weeks">>],
       [factor |-> 2592000,  aliases |-> <<"mt", "month", "months">>],
       [factor |-> 31536000, aliases |-> <<"a", "y", "year", "years">>] >>

\* stressy.format_duration: its local list units, largest first
units ==
    << [unit |-> "a",   duration |-> 31536000],
       [unit |-> "mt",  duration |-> 2592000],
       [unit |-> "w",   duration |-> 604800],
       [unit |-> "d",   duration |-> 86400],
       [unit |-> "h",   duration |-> 3600],
       [unit |-> "min", duration |-> 60],
       [unit |-> "s",   duration |-> 1] >>

\* a token of a duration string: "%d%s" % (n, u), or "%0.3fs" % n when
\* decimals is 3; a string is the sequence of its tokens, joined by spaces
Token(n, u, decimals) == [n |-> n, u |-> u, decimals |-> decimals]

\* the slice parts[:num_parts]; a negative num_parts counts from the end
Slice(parts, num_parts) ==
    SubSeq(parts, 1, IF num_parts >= 0
                     THEN (IF num_parts < Len(parts) THEN num_parts ELSE Len(parts))
                     ELSE Max(Len(parts) + num_parts, 0))

\* stressy.format_duration: the loop over units from its k-th element on
RECURSIVE StressyParts(_, _)
StressyParts(value, k) ==
    IF k > Len(units) THEN << >>
    ELSE LET num_units == value \div units[k].duration
             rest      == value % units[k].duration
         IN  (IF num_units > 0 THEN <<Token(num_units, units[k].unit, 0)>> ELSE << >>)
             \o StressyParts(rest, k + 1)

\* stressy.format_duration
format_duration(secs) ==
    IF secs < 60 THEN <<Token(secs, "s", 3)>>
    ELSE Slice(StressyParts(secs, 1), 2)

\* utils.format_units: the loop over units[::-1] from the k-th unit down
RECURSIVE UnitsParts(_, _, _)
UnitsParts(value, table, k) ==
    IF k = 0 THEN << >>
    ELSE LET num_units == value \div table[k].factor
             rest      == value % table[k].factor
         IN  (IF num_units > 0 \/ table[k].factor = 1
              THEN <<Token(num_units, table[k].aliases[1], 0)>> ELSE << >>)
             \o UnitsParts(rest, table, k - 1)

\* utils.format_units
format_units(value, table, num_parts) ==
    Slice(UnitsParts(value, table, Len(table)), num_parts)

\* utils.format_duration, num_parts = 2
utils_format_duration(secs) ==
    IF secs < 60 THEN <<Token(secs, "s", 3)>>
    ELSE format_units(secs, UNITS_DURATION, 2)

\* utils.parse_units: the unit a token names, 0 if none ("invalid unit")
MatchedUnit(table, unit) ==
    IF \E k \in 1 .. Len(table) :
          \E a \in 1 .. Len(table[k].aliases) : table[k].aliases[a] = unit
    THEN CHOOSE k \in 1 .. Len(table) :
          /\ \E a \in 1 .. Len(table[k].aliases) : table[k].aliases[a] = unit
          /\ \A m \in 1 .. (k - 1) :
                \A a \in 1 .. Len(table[m].aliases) : table[m].aliases[a] # unit
    ELSE 0

\* utils.parse_units: the loop over the matches of UNITS_PATTERN
RECURSIVE ParseSum(_, _)
ParseSum(matches, table) ==
    IF matches = << >> THEN 0
    ELSE Head(matches).n * table[MatchedUnit(table, Head(matches).u)].factor
         + ParseSum(Tail(matches), table)

\* utils.parse_units: the value, or ValueError for no match or an invalid unit
parse_units(str, table) ==
    IF str = << >> \/ \E k \in 1 .. Len(str) : MatchedUnit(table, str[k].u) = 0
    THEN [ok |-> FALSE, value |-> 0]
    ELSE [ok |-> TRUE, value |-> ParseSum(str, table)]

\* utils.parse_duration
parse_duration(str) == parse_units(str, UNITS_DURATION)

\* the numbers of seconds given to the format functions: every sum of up to
\* MaxCount of each unit
DurationSeconds ==
    LET RECURSIVE Sums(_)
        Sums(k) == IF k = 0 THEN {0}
                   ELSE {v + c * UNITS_DURATION[k].factor :
                            v \in Sums(k - 1), c \in 0 .. MaxCount}
    IN  Sums(Len(UNITS_DURATION))

\* the strings given to parse_duration: one or two tokens with counts up to
\* MaxCount, the units by their first alias or "sec" or an unknown unit "x"
DurationStrings ==
    LET names  == {UNITS_DURATION[k].aliases[1] : k \in 1 .. Len(UNITS_DURATION)}
                    \cup {"sec", "x"}
        tokens == {Token(c, u, 0) : c \in 1 .. MaxCount, u \in names}
    IN  {<<t>> : t \in tokens} \cup {<<t1, t2>> : t1 \in tokens, t2 \in tokens}

\* an input is given: seconds to format, or a string to parse
InitDuration ==
    /\ ProgramInit
    /\ os_name = "posix"
    /\ args \in QueryArgs
    /\ args.command = NoCommand /\ ~args.results /\ ~args.clear_results
    /\ \/ \E x \in DurationSeconds :
             duration_io = [NoDuration EXCEPT !.seconds = x]
       \/ \E str \in DurationStrings :
             duration_io = [NoDuration EXCEPT !.string = str]

\* utils.parse_duration is applied to the string
ParseDuration ==
    /\ duration_io.string # << >>
    /\ ~duration_io.parsed
    /\ LET r == parse_duration(duration_io.string)
       IN  duration_io' = [duration_io EXCEPT !.parsed = TRUE,
                                              !.failed = ~r.ok,
                                              !.seconds = IF r.ok THEN r.value ELSE None]
    /\ UNCHANGED <<os_name, args, pc, runs, result, roundVars, seconds, exc, history,
                   exit_code, interrupt, rounds_true, rounds_false, storeVars,
                   termVars, logVars>>

\* stressy.format_duration is applied to the seconds
StressyFormatDuration ==
    /\ duration_io.seconds # None
    /\ "stressy" \notin duration_io.formatted
    /\ duration_io' = [duration_io EXCEPT !.formatted = @ \cup {"stressy"},
                                          !.stressy = format_duration(duration_io.seconds)]
    /\ UNCHANGED <<os_name, args, pc, runs, result, roundVars, seconds, exc, history,
                   exit_code, interrupt, rounds_true, rounds_false, storeVars,
                   termVars, logVars>>

\* utils.format_duration is applied to the seconds
UtilsFormatDuration ==
    /\ duration_io.seconds # None
    /\ "utils" \notin duration_io.formatted
    /\ duration_io' = [duration_io EXCEPT !.formatted = @ \cup {"utils"},
                                          !.utils = utils_format_duration(duration_io.seconds)]
    /\ UNCHANGED <<os_name, args, pc, runs, result, roundVars, seconds, exc, history,
                   exit_code, interrupt, rounds_true, rounds_false, storeVars,
                   termVars, logVars>>

NextDuration ==
    \/ ParseDuration
    \/ StressyFormatDuration
    \/ UtilsFormatDuration

SpecDuration == InitDuration /\ [][NextDuration]_vars

\* ------------------------------------- clear_results next to other invocations
\* clear_results: the file is opened for reading and read to its end; nothing
\* to remove ends the function, otherwise the rewrite follows
ClearRead ==
    /\ pc = "main"
    /\ ~args.results
    /\ args.clear_results
    /\ LET c == ClearResults(results_file, args.command)
       IN  /\ hist' = [hist EXCEPT !.op = "clear", !.command = args.command,
                                   !.before = results_file,
                                   !.remaining = Remaining(ReadLines(results_file),
                                                           args.command),
                                   !.removed = c.removed, !.total = c.total]
           /\ IF c.removed = 0
              THEN /\ SetTerm(print_line(Term))
                   /\ exit_code' = "PASSED"
                   /\ pc' = "exited"
              ELSE /\ UNCHANGED <<termVars, exit_code>>
                   /\ pc' = "clear_open"
    /\ UNCHANGED <<duration_io, os_name, args, results_file, logVars, runs, result, roundVars,
                   seconds, exc, history, interrupt, rounds_true, rounds_false>>

\* clear_results: open(RESULTS_FILE, 'w') truncates the file
ClearTruncate ==
    /\ pc = "clear_open"
    /\ results_file' = [exists |-> TRUE, lines |-> << >>]
    /\ pc' = "clear_write"
    /\ UNCHANGED <<duration_io, os_name, args, hist, termVars, logVars, runs, result, roundVars,
                   seconds, exc, history, exit_code, interrupt, rounds_true,
                   rounds_false>>

\* clear_results: the remaining lines are written and reach the file when it
\* is closed; the counts are printed and main returns PASSED
ClearWrite ==
    /\ pc = "clear_write"
    /\ results_file' = [exists |-> TRUE, lines |-> hist.remaining]
    /\ hist' = [hist EXCEPT !.reported = TRUE]
    /\ SetTerm(print_line(Term))
    /\ exit_code' = "PASSED"
    /\ pc' = "exited"
    /\ UNCHANGED <<duration_io, os_name, args, logVars, runs, result, roundVars, seconds, exc,
                   history, interrupt, rounds_true, rounds_false>>

\* append_result of another invocation, after clear_results has read the file
\* and before it opens it for writing (an append during the rewrite mixes the
\* bytes of both writers and is left out)
OtherAppend(line) ==
    /\ pc = "clear_open"
    /\ Len(hist.appended) < MaxOthers
    /\ results_file' = AppendResult(results_file, line)
    /\ hist' = [hist EXCEPT !.appended = Append(@, line)]
    /\ UNCHANGED <<duration_io, os_name, args, termVars, logVars, pc, runs, result, roundVars,
                   seconds, exc, history, exit_code, interrupt, rounds_true,
                   rounds_false>>

\* print_results of another invocation reads the file while clear_results is
\* between its read and the end of its rewrite
OtherRead ==
    /\ pc \in {"clear_open", "clear_write"}
    /\ hist' = [hist EXCEPT !.reads = @ \cup {ReadLines(results_file)}]
    /\ UNCHANGED <<duration_io, os_name, args, results_file, termVars, logVars, pc, runs, result,
                   roundVars, seconds, exc, history, exit_code, interrupt,
                   rounds_true, rounds_false>>

InitClearRace ==
    /\ Init
    /\ ~args.results
    /\ args.clear_results

NextClearRace ==
    \/ ClearRead
    \/ ClearTruncate
    \/ ClearWrite
    \/ \E line \in Lines : OtherAppend(line)
    \/ OtherRead

SpecClearRace == InitClearRace /\ [][NextClearRace]_vars


\* ------------------------------------------------------------------ claims
Counted_Sum == result.passed_runs + result.failed_runs

\* the command line makes main call stress_test
RunsCommand == ~args.results /\ ~args.clear_results /\ args.command # NoCommand

LoopEnded == RunsCommand /\ pc \in {"finish", "returned", "exited"}

Returned == RunsCommand /\ pc \in {"returned", "exited"}

AllExitedZero ==
    \A j \in ProcIds : outcome[j].kind = "exited" /\ outcome[j].returncode = 0

\* C1: when run() returns, its result is true exactly when every process of the
\* round exited with code 0 and none was killed by the timeout.
C1_RoundIsConjunction ==
    pc = "round_done" => (success <=> AllExitedZero)

\* a round of two processes where only the first one failed has returned
C1_Witness ==
    /\ pc = "round_done"
    /\ args.processes = 2
    /\ outcome[0].kind = "exited" /\ outcome[0].returncode # 0
    /\ outcome[1].kind = "exited" /\ outcome[1].returncode = 0
    /\ ~success

\* C2: passed_runs + failed_runs never exceeds the number of rounds started; it
\* equals it whenever the last round started has been counted, is one less
\* while a round is in progress, and each result returned by run() has been
\* added to exactly one of the two counters, by one.
C2_CountersMatchRounds ==
    /\ Counted_Sum <= runs
    /\ pc \in {"loop", "sleep"} => Counted_Sum = runs
    /\ pc \in {"run", "wait", "kill", "round_done"} => Counted_Sum = runs - 1
    /\ pc # "round_done" =>
          /\ result.passed_runs = rounds_true
          /\ result.failed_runs = rounds_false
    /\ pc = "round_done" =>
          /\ result.passed_runs = rounds_true - (IF success THEN 1 ELSE 0)
          /\ result.failed_runs = rounds_false - (IF success THEN 0 ELSE 1)

\* two rounds were completed, one passed and one failed, and the loop goes on
C2_Witness ==
    /\ pc = "loop"
    /\ runs = 2
    /\ result.passed_runs = 1
    /\ result.failed_runs = 1

\* C3: without the continue flag, once run() has returned false the loop is
\* over: that round is the only failed one and the last one started, the thread
\* never sleeps or starts a round again, failed_runs becomes 1, and the status
\* returned is FAILED.
C3_FirstFailureStops ==
    (~args.cont /\ rounds_false >= 1) =>
        /\ rounds_false = 1
        /\ runs = rounds_true + 1
        /\ pc \in {"round_done", "finish", "returned", "exited", "aborted"}
        /\ pc # "round_done" =>
              /\ result.failed_runs = 1
              /\ result.passed_runs = rounds_true
        /\ Returned => result.status = "FAILED"

\* the first round of a limit of two failed with a sleep configured, and the
\* program ended after that one round
C3_Witness ==
    /\ ~args.cont
    /\ args.runs = 2
    /\ args.sleep # None /\ args.sleep > 0
    /\ pc = "exited"
    /\ runs = 1
    /\ result.failed_runs = 1
    /\ result.status = "FAILED"

\* C4: with the continue flag and a limit n, the number of rounds started never
\* exceeds n, and a result returned without cancellation has runs = n,
\* passed_runs + failed_runs = n, the counters equal to the numbers of rounds
\* that returned true and false, and status FAILED if any round failed.
C4_ContinueRunsAllRounds ==
    (args.cont /\ args.runs # None) =>
        /\ runs <= args.runs
        /\ (Returned /\ result.status # "CANCELLED") =>
              /\ runs = args.runs
              /\ Counted_Sum = args.runs
              /\ result.passed_runs = rounds_true
              /\ result.failed_runs = rounds_false
              /\ result.failed_runs >= 1 => result.status = "FAILED"

\* two rounds of two were run with the continue flag, the first one failed
C4_Witness ==
    /\ args.cont
    /\ args.runs = 2
    /\ pc = "exited"
    /\ result.passed_runs = 1
    /\ result.failed_runs = 1
    /\ rounds_false = 1
    /\ result.status = "FAILED"

\* C5: a result returned without cancellation has status PASSED exactly when
\* failed_runs is 0 and status FAILED otherwise.
C5_FinalStatus ==
    (Returned /\ result.status # "CANCELLED") =>
        /\ result.status \in {"PASSED", "FAILED"}
        /\ result.status = "PASSED" <=> result.failed_runs = 0

\* a run with the continue flag returned after a passed and a failed round
C5_Witness ==
    /\ pc = "returned"
    /\ interrupt.at = "none"
    /\ result.passed_runs = 1
    /\ result.failed_runs = 1
    /\ result.status = "FAILED"

\* the counters and the run counter are what they were when the interrupt came
CountsKept ==
    /\ runs = interrupt.runs
    /\ result.passed_runs = interrupt.passed_runs
    /\ result.failed_runs = interrupt.failed_runs

\* C6: an interrupt delivered while the round waits for a process or while the
\* inter-round sleep is in progress sets the status to CANCELLED, ends the loop
\* with no further round, and leaves the counters as they were.
C6_InterruptCancels ==
    interrupt.at \in {"wait", "kill", "sleep"} =>
        /\ result.status = "CANCELLED"
        /\ LoopEnded
        /\ CountsKept

\* C7: an interrupt delivered anywhere in the repetition loop (its top-level
\* code, the wait of a round, the sleep) ends in a returned result with status
\* CANCELLED and the counters kept, and in one history entry once main is done.
C7_InterruptReturnsCancelled ==
    interrupt.at \in {"loop", "wait", "sleep"} =>
        /\ pc # "aborted"
        /\ result.status = "CANCELLED"
        /\ CountsKept
        /\ pc = "exited" => Len(history) = 1

\* C8: an interrupt received at a wait of the round supervisor, the wait inside
\* kill included, reaches the repetition loop, which ends CANCELLED.
C8_SupervisorPropagatesInterrupt ==
    interrupt.at \in {"wait", "kill"} =>
        /\ LoopEnded
        /\ result.status = "CANCELLED"

\* the budget of the process waited for is the timeout less the time elapsed
\* on the processes before it, clamped at 0, whether that time is taken as the
\* elapsed values the code measures or as the time inside the timed waits alone
BudgetIsShared ==
    (pc \in {"wait", "kill"} /\ args.timeout # None) =>
        /\ remaining_timeout = Max(args.timeout - spent, 0)
        /\ remaining_timeout >= 0
        /\ pc = "wait" =>
              /\ remaining_timeout = Max(args.timeout - wait_used, 0)
              /\ wait_used + clock <= args.timeout

\* the budget does not grow from one process of a round to the next
BudgetShrinks ==
    (pc \in {"wait", "kill"} /\ pc' \in {"wait", "kill"} /\ args.timeout # None) =>
        remaining_timeout' <= remaining_timeout

\* C9: with a timeout T, the budget given to process i is max(T - time elapsed
\* on processes 0..i-1, 0); it is never negative, never grows within a round,
\* and the time spent in the timed waits of a round is at most T.
C9_SharedBudget ==
    /\ [](BudgetIsShared /\ (pc = "round_done" /\ args.timeout # None
                                => wait_used <= args.timeout))
    /\ [][BudgetShrinks]_vars

\* the second process of a round waits with what the first one left of a
\* timeout of two ticks
C9_Witness ==
    /\ pc = "wait"
    /\ args.timeout = 2
    /\ i = 1
    /\ spent = 1
    /\ remaining_timeout = 1
    /\ clock = 1

\* C10: a process that has not completed when its budget expires is terminated
\* and counted as a failed process of the round, whatever its exit code; the
\* round goes on with the next process and returns false.
C10_TimeoutKillsAndFails ==
    /\ \A j \in ProcIds :
          outcome[j].kind = "expired" => (pc = "kill" /\ i = j)
    /\ \A j \in ProcIds :
          outcome[j].kind = "killed" =>
              /\ ~success
              /\ pc \in {"wait", "kill", "round_done"}
              /\ pc = "wait" => i > j

\* the processes whose completion the supervisor has observed
Observed == {j \in ProcIds : outcome[j] # Pending}

\* C11: whenever the supervisor waits, every process of the round has been
\* launched, and the processes whose completion it has observed and reported
\* are exactly those before the one it waits for (that one included once its
\* budget has expired), whatever processes have terminated meanwhile.
C11_LaunchAllThenInOrder ==
    /\ pc \in {"wait", "kill"} =>
          /\ \A j \in ProcIds : procs[j].state # "none"
          /\ Observed = {j \in ProcIds : j < i \/ (j = i /\ pc = "kill")}
          /\ \A j \in ProcIds : procs[j].state = "reaped" <=> j < i
    /\ pc = "round_done" => Observed = ProcIds

\* the supervisor still waits for process 0, which runs, while process 1 has
\* terminated already and is not observed yet
C11_Witness ==
    /\ pc = "wait"
    /\ args.processes = 2
    /\ i = 0
    /\ procs[0].state = "running"
    /\ procs[1].state = "exited"
    /\ Observed = {}

\* C12: the number of rounds started never exceeds a configured limit, and
\* the loop has ended only if the limit is reached, or a round failed without
\* the continue flag, or the run was cancelled; so without a limit, a failure
\* or a cancellation it has not ended.
C12_LoopExitReasons ==
    /\ args.runs # None => runs <= args.runs
    /\ LoopEnded =>
          \/ args.runs # None /\ runs = args.runs
          \/ ~args.cont /\ rounds_false >= 1
          \/ result.status = "CANCELLED"
    /\ (args.runs = None /\ rounds_false = 0 /\ result.status # "CANCELLED") =>
          ~LoopEnded

\* the loop ended at its limit of two rounds, after a failed round with the
\* continue flag set
C12_Witness ==
    /\ pc = "finish"
    /\ args.runs = 2
    /\ runs = 2
    /\ args.cont
    /\ rounds_false = 1
    /\ result.status # "CANCELLED"

\* C13: an invocation that ran the loop and exited has appended exactly one
\* entry, the store holding that line, and its status is PASSED, FAILED or
\* CANCELLED; before that nothing is appended; with -r or --clear-results, or
\* without a command, nothing is ever appended, no round is started and no
\* process is launched; an exit with ERROR leaves no entry.
C13_OneHistoryEntry ==
    /\ RunsCommand =>
          IF pc = "exited"
          THEN /\ Len(history) = 1
               /\ history[1].status = result.status
               /\ result.status \in {"PASSED", "FAILED", "CANCELLED"}
               /\ results_file =
                     [exists |-> TRUE,
                      lines |-> <<Line(args.command, result.status)>>]
          ELSE /\ history = << >>
               /\ results_file = AbsentFile
    /\ ~RunsCommand =>
          /\ history = << >>
          /\ Len(ReadLines(results_file)) <= MaxLines
          /\ runs = 0
          /\ pc \in {"main", "exited", "aborted"}
          /\ \A j \in ProcIds : procs[j].state = "none"
    /\ exit_code = "ERROR" => history = << >>

\* a cancelled invocation has exited with its one entry
C13_Witness ==
    /\ RunsCommand
    /\ pc = "exited"
    /\ result.status = "CANCELLED"
    /\ Len(history) = 1
    /\ Len(results_file.lines) = 1

\* the lines of s that do not start with prefix, in their order, taken from
\* the end of s
RECURSIVE Kept(_, _)
Kept(s, prefix) ==
    IF s = << >> THEN << >>
    ELSE IF StartsWith(s[Len(s)], prefix)
         THEN Kept(SubSeq(s, 1, Len(s) - 1), prefix)
         ELSE Append(Kept(SubSeq(s, 1, Len(s) - 1), prefix), s[Len(s)])

\* the number of lines of s that start with prefix
Matching(s, prefix) == Cardinality({k \in 1 .. Len(s) : StartsWith(s[k], prefix)})

CommandOf(line) == CHOOSE c \in Commands : \E f \in {"PASSED", "FAILED"} : line = Line(c, f)

\* the entries of the lines of s whose command is c, in order; an entry is the
\* list of the fields after the command, here one field of one token
RECURSIVE EntriesOf(_, _)
EntriesOf(s, c) ==
    IF s = << >> THEN << >>
    ELSE IF CommandOf(s[Len(s)]) = c
         THEN Append(EntriesOf(SubSeq(s, 1, Len(s) - 1), c),
                     << <<s[Len(s)][Len(s[Len(s)])]>> >>)
         ELSE EntriesOf(SubSeq(s, 1, Len(s) - 1), c)

\* the index of the first line of s whose command is c
FirstOf(s, c) == CHOOSE k \in 1 .. Len(s) :
                    /\ CommandOf(s[k]) = c
                    /\ \A m \in 1 .. (k - 1) : CommandOf(s[m]) # c

\* C16: print_results lists one group for every command of a line that starts
\* with the given command string and no other group; a group holds the entries
\* of its command in file order, and the groups are in the order in which
\* their commands first occur in the file; an absent file gives an empty
\* listing and exit status PASSED; the store is what it was.
C16_ListGroupsInFileOrder ==
    (hist.op = "list" /\ pc = "exited") =>
        LET before == ReadLines(hist.before)
            match  == {k \in 1 .. Len(before) : StartsWith(before[k], hist.command)}
            groups == hist.listed
        IN  /\ {groups[g].command : g \in 1 .. Len(groups)}
                  = {CommandOf(before[k]) : k \in match}
            /\ \A g, h \in 1 .. Len(groups) :
                  g < h => /\ groups[g].command # groups[h].command
                           /\ FirstOf(before, groups[g].command)
                                 < FirstOf(before, groups[h].command)
            /\ \A g \in 1 .. Len(groups) :
                  /\ groups[g].entries = EntriesOf(before, groups[g].command)
                  /\ groups[g].entries # << >>
            /\ ~hist.before.exists => groups = << >>
            /\ exit_code = "PASSED"
            /\ results_file = hist.before

\* "a" was listed from a store where a line of "a" stands between two
\* different lines of "a b": two groups, the first with two entries
C16_Witness ==
    /\ hist.op = "list"
    /\ pc = "exited"
    /\ hist.command = <<"a">>
    /\ hist.before.lines = << Line(<<"a", "b">>, "PASSED"), Line(<<"a">>, "FAILED"),
                              Line(<<"a", "b">>, "FAILED") >>
    /\ Len(hist.listed) = 2
    /\ hist.listed[1] = [command |-> <<"a", "b">>,
                         entries |-> << << <<"PASSED">> >>, << <<"FAILED">> >> >>]

\* C15: an entry that another invocation appended while clear_results was
\* between its read and its rewrite, and that does not start with the command,
\* is in the store when clear_results is done; and what another invocation read
\* in that time is the store as it was before the clear (with the entries
\* appended so far) or that store without its matching lines.
C15_ClearIsAtomic ==
    /\ (hist.op = "clear" /\ pc = "exited") =>
          \A k \in 1 .. Len(hist.appended) :
              ~StartsWith(hist.appended[k], hist.command) =>
                  \E m \in 1 .. Len(ReadLines(results_file)) :
                      ReadLines(results_file)[m] = hist.appended[k]
    /\ \A read \in hist.reads :
          \E n \in 0 .. Len(hist.appended) :
              LET b == ReadLines(hist.before) \o SubSeq(hist.appended, 1, n)
              IN  read = b \/ read = Kept(b, hist.command)

\* C17: an invocation in which an error was raised (an I/O error of the history
\* store or of a log file, or another exception that is not a cancellation)
\* exits through the handler of the entry point with status ERROR; it is never
\* left by an unhandled exception.
C17_ErrorsEndAtBoundary ==
    exc \in {"OSError", "AttributeError"} =>
        /\ pc = "exited"
        /\ exit_code = "ERROR"

\* C18: in file mode, whenever the thread is not inside the wait loop of a
\* round, every log handle is closed and no temporary log exists.
C18_RoundExitCleansUp ==
    (args.output = "file" /\ pc \notin {"wait", "kill"}) =>
        \A j \in ProcIds :
            /\ ~logs.open[j]
            /\ logs.temp[j] = 0

\* C19: in file mode, once stress_test has removed the old logs, the good log
\* of process j holds the output of the last round in which j succeeded and
\* the bad log that of the last round in which it failed, and is absent if
\* there was none; inside a round the processes already observed have no
\* temporary log and no open handle, the others have theirs of this round.
C19_LogsHoldLatestRound ==
    (args.output = "file" /\ pc # "main") =>
        /\ \A j \in ProcIds :
              /\ logs.good[j] = log_rounds.good[j]
              /\ logs.bad[j] = log_rounds.bad[j]
        /\ pc \in {"wait", "kill"} =>
              \A j \in ProcIds :
                  IF j < i THEN logs.temp[j] = 0 /\ ~logs.open[j]
                           ELSE logs.temp[j] = runs /\ logs.open[j]

\* process 0 failed in round 1 and succeeded in round 2, process 1 succeeded
\* in both: the bad log of 0 is of round 1, both good logs are of round 2
C19_Witness ==
    /\ args.output = "file"
    /\ pc = "round_done"
    /\ runs = 2
    /\ logs.bad[0] = 1
    /\ logs.good[0] = 2
    /\ logs.good[1] = 2
    /\ logs.bad[1] = 0

\* C20: no ordinary line is printed while the tracked width of the status
\* line is greater than 0.
C20_OrdinaryPrintsAtWidthZero == ~dirty_print

\* what is left of x seconds once the units above the k-th unit of the ladder
\* have taken their whole counts
RECURSIVE LeftBelow(_, _)
LeftBelow(x, k) ==
    IF k = Len(UNITS_DURATION) THEN x
    ELSE LeftBelow(x, k + 1) % UNITS_DURATION[k + 1].factor

\* the count of the k-th unit in the successive integer division of x
CountOf(x, k) == LeftBelow(x, k) \div UNITS_DURATION[k].factor

\* the two largest units with a non-zero count, as tokens, largest first
TwoLargest(x) ==
    LET nz    == {k \in 1 .. Len(UNITS_DURATION) : CountOf(x, k) > 0}
        top   == CHOOSE k \in nz : \A m \in nz : m <= k
        next  == CHOOSE k \in nz \ {top} : \A m \in nz \ {top} : m <= k
        T(k)  == Token(CountOf(x, k), UNITS_DURATION[k].aliases[1], 0)
    IN  IF nz = {} THEN << >>
        ELSE IF nz = {top} THEN <<T(top)>>
        ELSE <<T(top), T(next)>>

\* what format_duration of stressy.py returned
StressyFormatted == "stressy" \in duration_io.formatted /\ duration_io.seconds # None

\* what format_duration of utils.py returned
UtilsFormatted == "utils" \in duration_io.formatted /\ duration_io.seconds # None

\* the property of C21 for one returned string
TwoLargestNonZero(x, out) ==
    /\ Len(out) <= 2
    /\ x >= 60 =>
          /\ out = TwoLargest(x)
          /\ \A k \in 1 .. Len(out) : out[k].n > 0

\* C21: format_duration, of stressy.py and of utils.py, returns at most two
\* tokens, and for 60 seconds or more they are the two largest units with a
\* non-zero count in the successive integer division, none with a count of 0.
C21_TwoLargestNonZeroUnits ==
    /\ StressyFormatted => TwoLargestNonZero(duration_io.seconds, duration_io.stressy)
    /\ UtilsFormatted => TwoLargestNonZero(duration_io.seconds, duration_io.utils)

\* the index of the unit a token names by its first alias, 0 if it does not
LadderIndex(u) ==
    IF \E k \in 1 .. Len(UNITS_DURATION) : UNITS_DURATION[k].aliases[1] = u
    THEN CHOOSE k \in 1 .. Len(UNITS_DURATION) : UNITS_DURATION[k].aliases[1] = u
    ELSE 0

\* the value of a string of tokens that name units of the ladder
RECURSIVE ValueOf(_)
ValueOf(str) ==
    IF str = << >> THEN 0
    ELSE Head(str).n * UNITS_DURATION[LadderIndex(Head(str).u)].factor
         + ValueOf(Tail(str))

\* a canonical duration string: one or two tokens of non-zero counts, named by
\* the first alias, in descending ladder order, worth 60 seconds or more
Canonical(str) ==
    /\ Len(str) \in {1, 2}
    /\ \A k \in 1 .. Len(str) : str[k].n > 0 /\ LadderIndex(str[k].u) > 0
    /\ Len(str) = 2 => LadderIndex(str[1].u) > LadderIndex(str[2].u)
    /\ ValueOf(str) >= 60

\* C22: once a canonical string has been parsed by parse_duration and the
\* value formatted by format_duration of utils.py, the string returned is the
\* string given.
C22_RoundTrip ==
    (Canonical(duration_io.string) /\ duration_io.parsed
        /\ "utils" \in duration_io.formatted) =>
        /\ ~duration_io.failed
        /\ duration_io.utils = duration_io.string

\* a sleep is configured
Sleeps == ~NotSeconds(args.sleep)

\* the ticks of a sleep of s: the least k with k * Resolution >= s
Ceil(s) == (s + Resolution - 1) \div Resolution

\* while the thread sleeps, the time left is positive, a whole number of ticks
\* below the configured sleep, fewer than Ceil ticks have been slept, and the
\* countdown line is on the terminal; the thread sleeps only with a sleep
\* configured
Countdown ==
    pc = "sleep" =>
        /\ Sleeps
        /\ seconds > 0
        /\ seconds <= args.sleep
        /\ (args.sleep - seconds) % Resolution = 0
        /\ (args.sleep - seconds) \div Resolution < Ceil(args.sleep)
        /\ print_over_length = Len("  " \o SleepLine)

\* the sleep starts after every round that passed, with the whole time left;
\* a tick takes one second off the time left, which stays above 0 while the
\* sleep goes on; the tick that ends the sleep is tick number Ceil and leaves
\* 0; and no round starts during the sleep
CountdownStep ==
    /\ (pc = "round_done" /\ success /\ Sleeps) =>
          (pc' = "sleep" /\ seconds' = args.sleep)
    /\ (pc = "sleep" /\ pc' = "sleep" /\ seconds' # seconds) =>
          (seconds' = seconds - Resolution /\ seconds' > 0)
    /\ (pc = "sleep" /\ pc' = "loop") =>
          /\ seconds' = 0
          /\ (args.sleep - seconds) \div Resolution + 1 = Ceil(args.sleep)
    /\ pc = "sleep" => (pc' \in {"sleep", "loop", "finish"} /\ runs' = runs)
    /\ (pc = "sleep" /\ pc' = "finish") => result'.status = "CANCELLED"

\* C23: with a sleep of s > 0, after each round that passed the thread sleeps
\* in ticks of one second, ceil(s) in all unless interrupted, before the next
\* round starts; the countdown line is shown at every tick, the time left goes
\* down by one second per tick and never below 0, and the sleep ends.
C23_SleepCountsDown ==
    /\ [](Countdown /\ seconds >= 0)
    /\ [][CountdownStep]_vars
    /\ (pc = "sleep") ~> (pc # "sleep")

\* a sleep of three half-seconds has one tick left: the second of its two ticks
C23_Witness ==
    /\ pc = "sleep"
    /\ args.sleep = 3
    /\ seconds = 1
    /\ rounds_true = 1

\* the status (None while the loop runs) only leaves None, and once set stays
StatusStep ==
    /\ result.status = "None" =>
          result'.status \in {"None", "PASSED", "FAILED", "CANCELLED"}
    /\ result.status # "None" => result'.status = result.status

\* C24: the status goes from running (None) to PASSED, FAILED or CANCELLED and
\* then stays: a CANCELLED status is not replaced by the final determination,
\* and in a returned result PASSED implies failed_runs = 0 and FAILED implies
\* failed_runs >= 1.
C24_StatusMachine ==
    /\ [](result.status \in {"None", "PASSED", "FAILED", "CANCELLED"})
    /\ [][StatusStep]_vars
    /\ [](Returned =>
            /\ result.status # "None"
            /\ result.status = "PASSED" => result.failed_runs = 0
            /\ result.status = "FAILED" => result.failed_runs >= 1)

\* a run interrupted after a failed round under the continue flag has gone
\* through the final determination and is still CANCELLED
C24_Witness ==
    /\ pc = "returned"
    /\ result.status = "CANCELLED"
    /\ result.failed_runs = 1
    /\ args.cont

\* C25: with a run-count limit, when every child process terminates by itself
\* or a timeout is configured, and the thread, the clock and the children are scheduled fairly, an
\* invocation that calls stress_test eventually has its result returned, with
\* status PASSED, FAILED or CANCELLED, unless an interrupt at the top of the
\* loop (C7) or an I/O error (C17, C18) has ended it before.
C25_EventuallyReturns ==
    (RunsCommand /\ args.runs # None)
        ~> \/ Returned /\ result.status \in {"PASSED", "FAILED", "CANCELLED"}
           \/ exc \in {"KeyboardInterrupt", "OSError"}

============================================================================
